---- MODULE Spec2Model ----
(***************************************************************************)
(* Model of the onboarding-counter canister client (src/src/ic_agent.rs)   *)
(* and of the action dispatcher (src/src/server_functions.rs).             *)
(*                                                                         *)
(* A text is modelled as a sequence of string fragments, so that           *)
(* formatting (anyhow!("...{}", x)) is concatenation of fragments and      *)
(* str::contains is the presence of a fragment.                            *)
(***************************************************************************)
EXTENDS Integers, Sequences, FiniteSets, TLC

\* ------------------------------------------------------------------------
\* Bounds of the model
\* ------------------------------------------------------------------------

\* number of operations that callers sharing the handle may issue, in any
\* interleaving, in one behaviour
MaxCalls == 2

\* number of operations a single caller may issue one after the other, each
\* awaited before the next, in one behaviour
MaxSeqCalls == 3

\* the requests the web server handles in a behaviour
MaxRequests == 2

\* number of operations issued, one after the other, on a handle on which
\* the utility methods are called too
MaxUtilCalls == 2

\* the clicks on the client buttons of the page in a behaviour
MaxClicks == 2

\* ------------------------------------------------------------------------
\* Texts
\* ------------------------------------------------------------------------

\* A text that the code searches is the sequence of its characters.

\* str::contains: needle occurs in text as a run of consecutive characters
Contains(text, needle) ==
    \E i \in 1..(Len(text) - Len(needle) + 1) :
        SubSeq(text, i, i + Len(needle) - 1) = needle

\* the two endpoint URLs of create_local_client / create_mainnet_client
LocalUrl ==
    <<"h", "t", "t", "p", ":", "/", "/", "1", "2", "7", ".", "0", ".", "0",
    ".", "1", ":", "4", "9", "4", "3">>

MainnetUrl ==
    <<"h", "t", "t", "p", "s", ":", "/", "/", "i", "c", "0", ".", "a", "p",
    "p">>

\* a third URL a direct caller of ICClient::new may pass
LocalhostUrl ==
    <<"h", "t", "t", "p", ":", "/", "/", "l", "o", "c", "a", "l", "h", "o",
    "s", "t", ":", "4", "9", "4", "3">>

Urls == {LocalUrl, MainnetUrl, LocalhostUrl}

\* a root key check that knows only one of the two loopback markers
RequiresRootKeyLocalhostOnly(replica_url) ==
    Contains(replica_url, <<"l", "o", "c", "a", "l", "h", "o", "s", "t">>)

\* the condition of the `if` that guards fetch_root_key
RequiresRootKey(replica_url) ==
    \/ Contains(replica_url, <<"1", "2", "7", ".", "0", ".", "0", ".", "1">>)
    \/ Contains(replica_url, <<"l", "o", "c", "a", "l", "h", "o", "s", "t">>)

\* A message is kept as the sequence of the pieces it was formatted from
\* (the literal parts of the format string and its arguments).

\* the characters of the strings that the messages of the model are made of
Chars(s) ==
    CASE s = "" ->
            <<>>
      [] s = "local" ->
            <<"l", "o", "c", "a", "l">>
      [] s = "prod" ->
            <<"p", "r", "o", "d">>
      [] s = "Local" ->
            <<"L", "o", "c", "a", "l">>
      [] s = "PROD" ->
            <<"P", "R", "O", "D">>
      [] s = "invalid" ->
            <<"i", "n", "v", "a", "l", "i", "d">>
      [] s = "Invalid DEPLOYMENT_ENV" ->
            <<"I", "n", "v", "a", "l", "i", "d", " ", "D", "E", "P", "L", "O",
              "Y", "M", "E", "N", "T", "_", "E", "N", "V">>
      [] s = "Invalid DEPLOYMENT_ENV: " ->
            <<"I", "n", "v", "a", "l", "i", "d", " ", "D", "E", "P", "L", "O",
              "Y", "M", "E", "N", "T", "_", "E", "N", "V", ":", " ">>
      [] s = ". Must be 'local' or 'prod'" ->
            <<".", " ", "M", "u", "s", "t", " ", "b", "e", " ", "'", "l", "o",
              "c", "a", "l", "'", " ", "o", "r", " ", "'", "p", "r", "o", "d",
              "'">>
      [] s = "COUNTER_CANISTER_ID environment variable not set" ->
            <<"C", "O", "U", "N", "T", "E", "R", "_", "C", "A", "N", "I", "S",
              "T", "E", "R", "_", "I", "D", " ", "e", "n", "v", "i", "r", "o",
              "n", "m", "e", "n", "t", " ", "v", "a", "r", "i", "a", "b", "l",
              "e", " ", "n", "o", "t", " ", "s", "e", "t">>
      [] s = "CALLER_CANISTER_ID environment variable not set" ->
            <<"C", "A", "L", "L", "E", "R", "_", "C", "A", "N", "I", "S", "T",
              "E", "R", "_", "I", "D", " ", "e", "n", "v", "i", "r", "o", "n",
              "m", "e", "n", "t", " ", "v", "a", "r", "i", "a", "b", "l", "e",
              " ", "n", "o", "t", " ", "s", "e", "t">>
      [] s = "Failed to create agent: " ->
            <<"F", "a", "i", "l", "e", "d", " ", "t", "o", " ", "c", "r", "e",
              "a", "t", "e", " ", "a", "g", "e", "n", "t", ":", " ">>
      [] s = "builder error" ->
            <<"b", "u", "i", "l", "d", "e", "r", " ", "e", "r", "r", "o",
              "r">>
      [] s = "Failed to fetch root key: " ->
            <<"F", "a", "i", "l", "e", "d", " ", "t", "o", " ", "f", "e", "t",
              "c", "h", " ", "r", "o", "o", "t", " ", "k", "e", "y", ":",
              " ">>
      [] s = "connection refused" ->
            <<"c", "o", "n", "n", "e", "c", "t", "i", "o", "n", " ", "r", "e",
              "f", "u", "s", "e", "d">>
      [] s = "Invalid counter canister ID: " ->
            <<"I", "n", "v", "a", "l", "i", "d", " ", "c", "o", "u", "n", "t",
              "e", "r", " ", "c", "a", "n", "i", "s", "t", "e", "r", " ", "I",
              "D", ":", " ">>
      [] s = "Invalid caller canister ID: " ->
            <<"I", "n", "v", "a", "l", "i", "d", " ", "c", "a", "l", "l", "e",
              "r", " ", "c", "a", "n", "i", "s", "t", "e", "r", " ", "I", "D",
              ":", " ">>
      [] s = "Text is too short." ->
            <<"T", "e", "x", "t", " ", "i", "s", " ", "t", "o", "o", " ", "s",
              "h", "o", "r", "t", ".">>
      [] s = "Text must be in valid Base32 encoding." ->
            <<"T", "e", "x", "t", " ", "m", "u", "s", "t", " ", "b", "e", " ",
              "i", "n", " ", "v", "a", "l", "i", "d", " ", "B", "a", "s", "e",
              "3", "2", " ", "e", "n", "c", "o", "d", "i", "n", "g", ".">>
      [] s = "Agent not available" ->
            <<"A", "g", "e", "n", "t", " ", "n", "o", "t", " ", "a", "v", "a",
              "i", "l", "a", "b", "l", "e">>
      [] s = "Failed to get principal: " ->
            <<"F", "a", "i", "l", "e", "d", " ", "t", "o", " ", "g", "e", "t",
              " ", "p", "r", "i", "n", "c", "i", "p", "a", "l", ":", " ">>
      [] s = "Update failed: " ->
            <<"U", "p", "d", "a", "t", "e", " ", "f", "a", "i", "l", "e", "d",
              ":", " ">>
      [] s = "Failed to decode response: " ->
            <<"F", "a", "i", "l", "e", "d", " ", "t", "o", " ", "d", "e", "c",
              "o", "d", "e", " ", "r", "e", "s", "p", "o", "n", "s", "e", ":",
              " ">>
      [] s = "Error: " ->
            <<"E", "r", "r", "o", "r", ":", " ">>
      [] s = "counter unavailable" ->
            <<"c", "o", "u", "n", "t", "e", "r", " ", "u", "n", "a", "v", "a",
              "i", "l", "a", "b", "l", "e">>
      [] s = "wrong magic number" ->
            <<"w", "r", "o", "n", "g", " ", "m", "a", "g", "i", "c", " ", "n",
              "u", "m", "b", "e", "r">>
      [] s = "type mismatch" ->
            <<"t", "y", "p", "e", " ", "m", "i", "s", "m", "a", "t", "c",
              "h">>
      [] s = "unexpected end of message" ->
            <<"u", "n", "e", "x", "p", "e", "c", "t", "e", "d", " ", "e", "n",
              "d", " ", "o", "f", " ", "m", "e", "s", "s", "a", "g", "e">>
      [] s = "variant index out of range" ->
            <<"v", "a", "r", "i", "a", "n", "t", " ", "i", "n", "d", "e", "x",
              " ", "o", "u", "t", " ", "o", "f", " ", "r", "a", "n", "g",
              "e">>

RECURSIVE Spell(_)
\* to_string of an error: the characters of its message, piece after piece
Spell(message) ==
    IF message = <<>> THEN <<>>
    ELSE Chars(Head(message)) \o Spell(Tail(message))

\* ------------------------------------------------------------------------
\* Principals: Principal::from_text over the identity texts of the model
\* ------------------------------------------------------------------------

CounterText == "u6s2n-gx777-77774-qaaba-cai"

CallerText == "uxrrr-q7777-77774-qaaaq-cai"

\* the identity texts of the production network; ICConfig::default_mainnet is
\* not among the sources, and the model takes the well-formed texts of the
\* crate's tests for its pair
MainnetCounterText == "rdmx6-jaaaa-aaaaa-aaadq-cai"

MainnetCallerText == "rrkah-fqaaa-aaaaa-aaaaq-cai"

\* texts that Principal::from_text rejects
BadTexts == {"", "not a principal"}

\* the texts passed for the counter target, and for the relay target
CounterTexts == {CounterText} \cup BadTexts

CallerTexts == {CallerText} \cup BadTexts

\* the bytes each well-formed text denotes (base32 payload after the CRC)
PrincipalBytes(text) ==
    CASE text = CounterText -> <<255, 255, 255, 255, 255, 144, 0, 2, 1, 1>>
      [] text = CallerText -> <<255, 255, 255, 255, 255, 144, 0, 1, 1, 1>>
      [] text = MainnetCounterText -> <<0, 0, 0, 0, 0, 0, 0, 7, 1, 1>>
      [] text = MainnetCallerText -> <<0, 0, 0, 0, 0, 0, 0, 1, 1, 1>>
      [] OTHER -> <<>>

WellFormedTexts == {CounterText, CallerText, MainnetCounterText, MainnetCallerText}

\* Principal::from_text: the principal, or the library's parse error
PrincipalFromText(text) ==
    IF text \in WellFormedTexts
    THEN [ok |-> TRUE, principal |-> PrincipalBytes(text), err |-> ""]
    ELSE [ok |-> FALSE, principal |-> <<>>,
          err |-> IF text = "" THEN "Text is too short."
                  ELSE "Text must be in valid Base32 encoding."]

\* ------------------------------------------------------------------------
\* Configuration
\* ------------------------------------------------------------------------

\* ICConfig::new
ICConfigNew(deployment_env, counter_canister_id, caller_canister_id) ==
    [deployment_env |-> deployment_env,
     counter_canister_id |-> counter_canister_id,
     caller_canister_id |-> caller_canister_id]

\* ICConfig::default_local
ICConfigDefaultLocal ==
    [deployment_env |-> "local",
     counter_canister_id |-> CounterText,
     caller_canister_id |-> CallerText]

\* ICConfig::default_mainnet, as main calls it: the production pair
ICConfigDefaultMainnet ==
    [deployment_env |-> "prod",
     counter_canister_id |-> MainnetCounterText,
     caller_canister_id |-> MainnetCallerText]

\* an environment variable: unset, or set to a value
Unset == [set |-> FALSE, val |-> ""]

SetTo(v) == [set |-> TRUE, val |-> v]

\* the environment tags of the model: the two legal ones, and others
EnvTags == {"local", "prod", "", "Local", "PROD", "invalid"}

\* the process environments of the model
Environments ==
    [DEPLOYMENT_ENV : {Unset} \cup {SetTo(t) : t \in {"local", "prod", "invalid"}},
     COUNTER_CANISTER_ID : {Unset, SetTo(CounterText), SetTo("not a principal")},
     CALLER_CANISTER_ID : {Unset, SetTo(CallerText), SetTo("not a principal")}]

\* the environment of a process started with no variable set
EmptyEnvironment ==
    [DEPLOYMENT_ENV |-> Unset, COUNTER_CANISTER_ID |-> Unset,
     CALLER_CANISTER_ID |-> Unset]

\* an environment lookup that falls back to the canned local identities
load_env_config_defaulting(e) ==
    [ok |-> TRUE,
     config |-> ICConfigNew(IF e.DEPLOYMENT_ENV.set THEN e.DEPLOYMENT_ENV.val
                            ELSE "local",
                            IF e.COUNTER_CANISTER_ID.set THEN e.COUNTER_CANISTER_ID.val
                            ELSE CounterText,
                            IF e.CALLER_CANISTER_ID.set THEN e.CALLER_CANISTER_ID.val
                            ELSE CallerText),
     err |-> <<>>]

\* an environment lookup whose absent tag means the production network
load_env_config_prod_default(e) ==
    IF ~e.COUNTER_CANISTER_ID.set
    THEN [ok |-> FALSE, config |-> ICConfigNew("", "", ""),
          err |-> <<"COUNTER_CANISTER_ID environment variable not set">>]
    ELSE IF ~e.CALLER_CANISTER_ID.set
    THEN [ok |-> FALSE, config |-> ICConfigNew("", "", ""),
          err |-> <<"CALLER_CANISTER_ID environment variable not set">>]
    ELSE [ok |-> TRUE,
          config |-> ICConfigNew(IF e.DEPLOYMENT_ENV.set THEN e.DEPLOYMENT_ENV.val
                                 ELSE "prod",
                                 e.COUNTER_CANISTER_ID.val, e.CALLER_CANISTER_ID.val),
          err |-> <<>>]

\* load_env_config: the configuration, or the error of the first missing key
load_env_config(e) ==
    LET deployment_env ==
            IF e.DEPLOYMENT_ENV.set THEN e.DEPLOYMENT_ENV.val ELSE "local"
    IN  IF ~e.COUNTER_CANISTER_ID.set
        THEN [ok |-> FALSE, config |-> ICConfigNew("", "", ""),
              err |-> <<"COUNTER_CANISTER_ID environment variable not set">>]
        ELSE IF ~e.CALLER_CANISTER_ID.set
        THEN [ok |-> FALSE, config |-> ICConfigNew("", "", ""),
              err |-> <<"CALLER_CANISTER_ID environment variable not set">>]
        ELSE [ok |-> TRUE,
              config |-> ICConfigNew(deployment_env, e.COUNTER_CANISTER_ID.val,
                                     e.CALLER_CANISTER_ID.val),
              err |-> <<>>]

\* a call of ICClient::new that an entry point resolves to, or its error
NewArgs(replica_url, counter_canister_id, caller_canister_id) ==
    [ok |-> TRUE, replica_url |-> replica_url,
     counter_canister_id |-> counter_canister_id,
     caller_canister_id |-> caller_canister_id, err |-> <<>>]

NoNewArgs(err) ==
    [ok |-> FALSE, replica_url |-> <<>>, counter_canister_id |-> "",
     caller_canister_id |-> "", err |-> err]

\* create_local_client
create_local_client(counter_canister_id, caller_canister_id) ==
    NewArgs(LocalUrl, counter_canister_id, caller_canister_id)

\* create_mainnet_client
create_mainnet_client(counter_canister_id, caller_canister_id) ==
    NewArgs(MainnetUrl, counter_canister_id, caller_canister_id)

\* a match on the environment tag whose last arm falls back to local
create_client_with_config_fallback(deployment_env, counter_canister_id, caller_canister_id) ==
    IF deployment_env = "prod"
    THEN create_mainnet_client(counter_canister_id, caller_canister_id)
    ELSE create_local_client(counter_canister_id, caller_canister_id)

\* create_client_with_config: the match on the environment tag
create_client_with_config(deployment_env, counter_canister_id, caller_canister_id) ==
    CASE deployment_env = "local" ->
            create_local_client(counter_canister_id, caller_canister_id)
      [] deployment_env = "prod" ->
            create_mainnet_client(counter_canister_id, caller_canister_id)
      [] OTHER ->
            NoNewArgs(<<"Invalid DEPLOYMENT_ENV: ", deployment_env,
                        ". Must be 'local' or 'prod'">>)

\* create_client_from_config
create_client_from_config(config) ==
    create_client_with_config(config.deployment_env, config.counter_canister_id,
                              config.caller_canister_id)

\* an environment lookup whose failure falls back to the canned local pair
create_client_ssr_fallback(e) ==
    LET loaded == load_env_config(e)
        config == IF loaded.ok THEN loaded.config ELSE ICConfigDefaultLocal
    IN  create_client_with_config(config.deployment_env, config.counter_canister_id,
                                  config.caller_canister_id)

\* create_client, built with the ssr feature: the environment lookup
create_client_ssr(e) ==
    LET loaded == load_env_config(e)
    IN  IF ~loaded.ok THEN NoNewArgs(loaded.err)
        ELSE create_client_with_config(loaded.config.deployment_env,
                                       loaded.config.counter_canister_id,
                                       loaded.config.caller_canister_id)

\* create_client, built without the ssr feature: the hardcoded local pair
create_client_wasm ==
    create_client_with_config(ICConfigDefaultLocal.deployment_env,
                              ICConfigDefaultLocal.counter_canister_id,
                              ICConfigDefaultLocal.caller_canister_id)

\* the entry points through which a client is constructed
Entries == {"create_client_ssr", "create_client_wasm", "create_client_with_config",
            "create_client_from_config", "create_local_client",
            "create_mainnet_client", "new"}

\* which of its inputs an entry point takes
TakesTag(entry) == entry \in {"create_client_with_config", "create_client_from_config"}

TakesIds(entry) == entry \notin {"create_client_ssr", "create_client_wasm"}

ReadsEnv(entry) == entry = "create_client_ssr"

TakesUrl(entry) == entry = "new"

\* the call of ICClient::new an entry point makes on its inputs
Resolve(entry, e, deployment_env, counter_canister_id, caller_canister_id, replica_url) ==
    CASE entry = "create_client_ssr" -> create_client_ssr(e)
      [] entry = "create_client_wasm" -> create_client_wasm
      [] entry = "create_client_with_config" ->
            create_client_with_config(deployment_env, counter_canister_id,
                                      caller_canister_id)
      [] entry = "create_client_from_config" ->
            create_client_from_config(ICConfigNew(deployment_env, counter_canister_id,
                                                  caller_canister_id))
      [] entry = "create_local_client" ->
            create_local_client(counter_canister_id, caller_canister_id)
      [] entry = "create_mainnet_client" ->
            create_mainnet_client(counter_canister_id, caller_canister_id)
      [] entry = "main" -> create_client_from_config(ICConfigDefaultMainnet)
      [] OTHER -> NewArgs(replica_url, counter_canister_id, caller_canister_id)

\* ------------------------------------------------------------------------
\* The client handle
\* ------------------------------------------------------------------------

\* Option<Agent>: None
NoAgent == [some |-> FALSE, url |-> <<>>, root_key |-> FALSE]

\* Option<Agent>: Some(agent), built for a URL, with or without a fetched root key
SomeAgent(url, root_key) == [some |-> TRUE, url |-> url, root_key |-> root_key]

\* no ICClient value
NoClient ==
    [present |-> FALSE, agent |-> NoAgent,
     counter_canister_id |-> <<>>, caller_canister_id |-> <<>>]

\* the ICClient struct
ICClient(agent, counter_principal, caller_principal) ==
    [present |-> TRUE, agent |-> agent,
     counter_canister_id |-> counter_principal,
     caller_canister_id |-> caller_principal]

\* a parse step that substitutes the empty principal for a relay identity
\* that does not parse
NewParseLenient(agent, counter_canister_id, caller_canister_id) ==
    LET counter_principal == PrincipalFromText(counter_canister_id)
        caller_principal == PrincipalFromText(caller_canister_id)
    IN  IF ~counter_principal.ok
        THEN [ok |-> FALSE, client |-> NoClient,
              err |-> <<"Invalid counter canister ID: ", counter_principal.err>>]
        ELSE [ok |-> TRUE,
              client |-> ICClient(agent, counter_principal.principal,
                                  caller_principal.principal),
              err |-> <<>>]

\* a parse step whose two error messages are exchanged
NewParseMisnamed(agent, counter_canister_id, caller_canister_id) ==
    LET counter_principal == PrincipalFromText(counter_canister_id)
        caller_principal == PrincipalFromText(caller_canister_id)
    IN  IF ~counter_principal.ok
        THEN [ok |-> FALSE, client |-> NoClient,
              err |-> <<"Invalid caller canister ID: ", counter_principal.err>>]
        ELSE IF ~caller_principal.ok
        THEN [ok |-> FALSE, client |-> NoClient,
              err |-> <<"Invalid counter canister ID: ", caller_principal.err>>]
        ELSE [ok |-> TRUE,
              client |-> ICClient(agent, counter_principal.principal,
                                  caller_principal.principal),
              err |-> <<>>]

\* a parse step that parses the relay identity before the counter identity
NewParseCallerFirst(agent, counter_canister_id, caller_canister_id) ==
    LET counter_principal == PrincipalFromText(counter_canister_id)
        caller_principal == PrincipalFromText(caller_canister_id)
    IN  IF ~caller_principal.ok
        THEN [ok |-> FALSE, client |-> NoClient,
              err |-> <<"Invalid caller canister ID: ", caller_principal.err>>]
        ELSE IF ~counter_principal.ok
        THEN [ok |-> FALSE, client |-> NoClient,
              err |-> <<"Invalid counter canister ID: ", counter_principal.err>>]
        ELSE [ok |-> TRUE,
              client |-> ICClient(agent, counter_principal.principal,
                                  caller_principal.principal),
              err |-> <<>>]

\* the tail of ICClient::new, after the agent is built and the root key
\* fetched where needed: both identities are parsed, the counter first
NewParse(agent, counter_canister_id, caller_canister_id) ==
    LET counter_principal == PrincipalFromText(counter_canister_id)
        caller_principal == PrincipalFromText(caller_canister_id)
    IN  IF ~counter_principal.ok
        THEN [ok |-> FALSE, client |-> NoClient,
              err |-> <<"Invalid counter canister ID: ", counter_principal.err>>]
        ELSE IF ~caller_principal.ok
        THEN [ok |-> FALSE, client |-> NoClient,
              err |-> <<"Invalid caller canister ID: ", caller_principal.err>>]
        ELSE [ok |-> TRUE,
              client |-> ICClient(agent, counter_principal.principal,
                                  caller_principal.principal),
              err |-> <<>>]

\* derive(Clone): every field is cloned
Clone(c) ==
    [present |-> c.present, agent |-> c.agent,
     counter_canister_id |-> c.counter_canister_id,
     caller_canister_id |-> c.caller_canister_id]

\* Principal::anonymous(), the sender of an agent built without an identity
AnonymousPrincipal == <<4>>

\* what Agent::get_principal gives for the agents ICClient::new builds
Senders == {[ok |-> TRUE, principal |-> AnonymousPrincipal, err |-> ""]}

\* get_canister_ids
get_canister_ids(self) == <<self.counter_canister_id, self.caller_canister_id>>

\* a lookup that takes an agent without a fetched root key for no agent
get_principal_needing_root_key(self, sender) ==
    IF ~self.agent.some \/ ~self.agent.root_key
    THEN [state |-> "err", principal |-> <<>>, err |-> <<"Agent not available">>]
    ELSE IF ~sender.ok
    THEN [state |-> "err", principal |-> <<>>,
          err |-> <<"Failed to get principal: ", sender.err>>]
    ELSE [state |-> "ok", principal |-> sender.principal, err |-> <<>>]

\* get_principal: the error of the missing agent, or what the agent says,
\* its error wrapped
get_principal(self, sender) ==
    IF ~self.agent.some
    THEN [state |-> "err", principal |-> <<>>, err |-> <<"Agent not available">>]
    ELSE IF ~sender.ok
    THEN [state |-> "err", principal |-> <<>>,
          err |-> <<"Failed to get principal: ", sender.err>>]
    ELSE [state |-> "ok", principal |-> sender.principal, err |-> <<>>]

\* serde: the agent field is skipped on serialization
Serialize(c) ==
    [counter_canister_id |-> c.counter_canister_id,
     caller_canister_id |-> c.caller_canister_id]

\* serde: a skipped field is rebuilt as its default, None
Deserialize(s) ==
    ICClient(NoAgent, s.counter_canister_id, s.caller_canister_id)

\* ------------------------------------------------------------------------
\* The remote call surface: Candid values on the wire
\* ------------------------------------------------------------------------

\* one element of an encoded message
Tok(k, n, s, b) == [k |-> k, n |-> n, s |-> s, b |-> b]

Magic == Tok("DIDL", 0, "", <<>>)

TypeTok(name) == Tok("type", 0, name, <<>>)

VariantTok(index) == Tok("variant", index, "", <<>>)

NatTok(n) == Tok("nat", n, "", <<>>)

TextTok(s) == Tok("text", 0, s, <<>>)

PrincipalTok(b) == Tok("principal", 0, "", b)

\* the Candid type of Result<Nat, String>
ResultType == "variant { Ok : nat; Err : text }"

\* candid::encode_args((&self.counter_canister_id,))
encode_args(principal) == <<Magic, TypeTok("principal"), PrincipalTok(principal)>>

\* the reply of a relay that answers Ok(n)
EncodeOk(n) == <<Magic, TypeTok(ResultType), VariantTok(0), NatTok(n)>>

\* the reply of a relay that answers Err(message)
EncodeErr(message) == <<Magic, TypeTok(ResultType), VariantTok(1), TextTok(message)>>

\* Decode!(&response, Result<Nat, String>): the two-armed value, or the
\* decoder's error
Decode(bytes) ==
    LET fail(cause) == [ok |-> FALSE, arm |-> "", nat |-> 0, text |-> "", err |-> cause]
    IN  IF Len(bytes) < 1 \/ bytes[1] # Magic
        THEN fail("wrong magic number")
        ELSE IF Len(bytes) < 2 \/ bytes[2] # TypeTok(ResultType)
        THEN fail("type mismatch")
        ELSE IF Len(bytes) < 4
        THEN fail("unexpected end of message")
        ELSE IF bytes[3] = VariantTok(0) /\ bytes[4].k = "nat"
        THEN [ok |-> TRUE, arm |-> "Ok", nat |-> bytes[4].n, text |-> "", err |-> ""]
        ELSE IF bytes[3] = VariantTok(1) /\ bytes[4].k = "text"
        THEN [ok |-> TRUE, arm |-> "Err", nat |-> 0, text |-> bytes[4].s, err |-> ""]
        ELSE fail("variant index out of range")

\* one decimal digit
Digit(d) ==
    CASE d = 0 -> "0" [] d = 1 -> "1" [] d = 2 -> "2" [] d = 3 -> "3"
      [] d = 4 -> "4" [] d = 5 -> "5" [] d = 6 -> "6" [] d = 7 -> "7"
      [] d = 8 -> "8" [] OTHER -> "9"

RECURSIVE Decimal(_)
\* the decimal digits of a natural number
Decimal(n) == IF n < 10 THEN Digit(n) ELSE Decimal(n \div 10) \o Digit(n % 10)

\* a group of exactly three digits
Group3(n) == Digit(n \div 100) \o Digit((n \div 10) % 10) \o Digit(n % 10)

RECURSIVE NatToString(_)
\* value.to_string() of a candid Nat: the decimal digits, in groups of
\* three separated by underscores
NatToString(n) ==
    IF n < 1000 THEN Decimal(n)
    ELSE NatToString(n \div 1000) \o "_" \o Group3(n % 1000)

\* ------------------------------------------------------------------------
\* The three operations of the client
\* ------------------------------------------------------------------------

\* CallerAction
Actions == {"Get", "Increment", "Decrement"}

\* an update call addressed to a canister
Update(canister_id, method_name, arg) ==
    [mode |-> "update", canister_id |-> canister_id, method_name |-> method_name,
     arg |-> arg]

NoRequest == Update(<<>>, "", <<>>)

\* a read that addresses the counter and passes the relay
caller_get_request_swapped(self) ==
    Update(self.counter_canister_id, "call_get", encode_args(self.caller_canister_id))

\* the call caller_get issues
caller_get_request(self) ==
    Update(self.caller_canister_id, "call_get", encode_args(self.counter_canister_id))

\* an increment that names the decrement method
caller_increment_request_decrementing(self) ==
    Update(self.caller_canister_id, "call_decrement",
           encode_args(self.counter_canister_id))

\* the call caller_increment issues
caller_increment_request(self) ==
    Update(self.caller_canister_id, "call_increment",
           encode_args(self.counter_canister_id))

\* the call caller_decrement issues
caller_decrement_request(self) ==
    Update(self.caller_canister_id, "call_decrement",
           encode_args(self.counter_canister_id))

\* a dispatch whose Increment arm calls caller_decrement
RequestOfCrossed(action, self) ==
    CASE action = "Get" -> caller_get_request(self)
      [] action = "Increment" -> caller_decrement_request(self)
      [] OTHER -> caller_decrement_request(self)

\* the request of the operation an action stands for
RequestOf(action, self) ==
    CASE action = "Get" -> caller_get_request(self)
      [] action = "Increment" -> caller_increment_request(self)
      [] OTHER -> caller_decrement_request(self)

\* what call_and_wait hands back: nothing yet, a transport failure, or the
\* reply bytes
NoResponse == [kind |-> "none", cause |-> "", bytes |-> <<>>]

TransportFailure(cause) == [kind |-> "transport", cause |-> cause, bytes |-> <<>>]

Reply(bytes) == [kind |-> "reply", cause |-> "", bytes |-> bytes]

\* Result<String>
NoResult == [state |-> "none", value |-> "", err |-> <<>>]

OkResult(value) == [state |-> "ok", value |-> value, err |-> <<>>]

ErrResult(err) == [state |-> "err", value |-> "", err |-> err]

\* the failure of an operation on a handle whose agent is None
AgentNotAvailable == ErrResult(<<"Agent not available">>)

\* an operation that reports a decode failure with the message of a remote
\* failure
OperationReturnConflated(response) ==
    IF response.kind = "transport"
    THEN ErrResult(<<"Update failed: ", response.cause>>)
    ELSE LET result == Decode(response.bytes)
         IN  IF ~result.ok
             THEN ErrResult(<<"Error: ", result.err>>)
             ELSE IF result.arm = "Ok"
             THEN OkResult(NatToString(result.nat))
             ELSE ErrResult(<<"Error: ", result.text>>)

\* what an operation returns once call_and_wait has completed: map_err of
\* the transport failure, Decode!, and the match on the decoded arm
OperationReturn(response) ==
    IF response.kind = "transport"
    THEN ErrResult(<<"Update failed: ", response.cause>>)
    ELSE LET result == Decode(response.bytes)
         IN  IF ~result.ok
             THEN ErrResult(<<"Failed to decode response: ", result.err>>)
             ELSE IF result.arm = "Ok"
             THEN OkResult(NatToString(result.nat))
             ELSE ErrResult(<<"Error: ", result.text>>)

\* caller_get, from the completion of call_and_wait on
caller_get_return(response) == OperationReturn(response)

\* caller_increment, from the completion of call_and_wait on
caller_increment_return(response) == OperationReturn(response)

\* caller_decrement, from the completion of call_and_wait on
caller_decrement_return(response) == OperationReturn(response)

\* the result of the operation an action stands for
ReturnOf(action, response) ==
    CASE action = "Get" -> caller_get_return(response)
      [] action = "Increment" -> caller_increment_return(response)
      [] OTHER -> caller_decrement_return(response)

\* ------------------------------------------------------------------------
\* The action dispatcher
\* ------------------------------------------------------------------------

\* Option<String>
None == [some |-> FALSE, val |-> <<>>]

Some(v) == [some |-> TRUE, val |-> v]

\* the CallerResult struct
CallerResult(value, success, error, action) ==
    [value |-> value, success |-> success, error |-> error, action |-> action]

\* Result<CallerResult, ServerFnError<String>>
NoOutcome ==
    [state |-> "none", result |-> CallerResult("", FALSE, None, ""), server_error |-> <<>>]

OkOutcome(result) == [state |-> "Ok", result |-> result, server_error |-> <<>>]

ErrOutcome(message) ==
    [state |-> "Err", result |-> CallerResult("", FALSE, None, ""),
     server_error |-> message]

\* a dispatcher that turns an error into a CallerResult without its message
execute_counter_action_unflagged(action, returned) ==
    IF returned.state = "err"
    THEN OkOutcome(CallerResult("", FALSE, None, action))
    ELSE OkOutcome(CallerResult(returned.value, TRUE, None, action))

\* execute_counter_action, from the completion of the client operation on:
\* an error becomes ServerFnError::ServerError(e.to_string()), a value
\* becomes a CallerResult
execute_counter_action(action, returned) ==
    IF returned.state = "err"
    THEN ErrOutcome(returned.err)
    ELSE OkOutcome(CallerResult(returned.value, TRUE, None, action))

\* ------------------------------------------------------------------------
\* State
\* ------------------------------------------------------------------------

VARIABLES
    ctor,     \* the construction of the client: its inputs, position and result
    client,   \* the handle its owner holds (NoClient before construction)
    net,      \* what has gone out on the network
    counter,  \* the counter value held by the remote runtime
    calls,    \* the operations issued on the handle
    util,     \* the last utility method called on the handle, and its result
    server,   \* the web server process: its position and its injected context
    browser   \* the page in the browser: its position and its client signal

vars == <<ctor, client, net, counter, calls, util, server, browser>>

\* the counter values a behaviour may start from
InitialCounters == {0, 999}

\* failure causes reported by the connection layer
BuildCause == "builder error"

RootKeyCause == "connection refused"

TransportCauses == {"connection refused"}

\* messages a relay may report in its Err arm
RemoteMessages == {"counter unavailable"}

\* replies that are not an encoded Result<Nat, String>: a truncated Ok, a
\* truncated Err, and a value of another type
MalformedReplies ==
    {<<Magic, TypeTok(ResultType), VariantTok(0)>>,
     <<Magic, TypeTok(ResultType), VariantTok(1)>>,
     <<Magic, TypeTok("nat"), NatTok(7)>>}

\* no environment lookup was made
NotLoaded == [ok |-> FALSE, config |-> ICConfigNew("", "", ""), err |-> <<>>]

IdleCtor ==
    [pc |-> "idle", entry |-> "", env |-> EmptyEnvironment, deployment_env |-> "",
     counter_text |-> "", caller_text |-> "", url |-> <<>>, build_ok |-> TRUE,
     fetch_ok |-> TRUE, loaded |-> NotLoaded, args |-> NoNewArgs(<<>>),
     result |-> NoResult, returned |-> NoClient]

\* the construction has returned and its result has been taken
ClosedCtor == [IdleCtor EXCEPT !.pc = "closed"]

IdleCall ==
    [pc |-> "idle", action |-> "", request |-> NoRequest, response |-> NoResponse,
     result |-> NoResult, outcome |-> NoOutcome]

\* no utility method has been called
NoUtil ==
    [op |-> "none", state |-> "none", principal |-> <<>>, ids |-> <<>>, err |-> <<>>]

\* no web server process
NoServer == [pc |-> "off", constructions |-> 0, context |-> NoClient]

\* no page in the browser
NoBrowser == [pc |-> "off", constructions |-> 0, signal |-> None]

NoTraffic == [agents_built |-> 0, root_key_requests |-> 0, updates |-> 0]

InitWith(slots) ==
    /\ ctor = IdleCtor
    /\ client = NoClient
    /\ net = NoTraffic
    /\ counter \in InitialCounters
    /\ calls = [id \in 1..slots |-> IdleCall]
    /\ util = NoUtil
    /\ server = NoServer
    /\ browser = NoBrowser

Init == InitWith(MaxCalls)

\* ------------------------------------------------------------------------
\* Construction
\* ------------------------------------------------------------------------

\* Agent::builder().with_url(replica_url).build() and its map_err
NewAgent(replica_url, build_ok) ==
    IF build_ok
    THEN [ok |-> TRUE, agent |-> SomeAgent(replica_url, FALSE), err |-> <<>>]
    ELSE [ok |-> FALSE, agent |-> NoAgent,
          err |-> <<"Failed to create agent: ", BuildCause>>]

\* agent.fetch_root_key().await and its map_err
FetchRootKey(agent, fetch_ok) ==
    IF fetch_ok
    THEN [ok |-> TRUE, agent |-> SomeAgent(agent.url, TRUE), err |-> <<>>]
    ELSE [ok |-> FALSE, agent |-> NoAgent,
          err |-> <<"Failed to fetch root key: ", RootKeyCause>>]

\* the construction has returned: its result, and the handle when there is one
Finished(c, built) ==
    [c EXCEPT !.pc = "done",
              !.result = IF built.ok THEN OkResult("") ELSE ErrResult(built.err),
              !.returned = built.client]

\* An entry point is called: the configuration is resolved, and
\* ICClient::new runs up to its first suspension (the root key fetch) or,
\* when no root key is needed, to its end.
ConstructBeginOn(entry, e, deployment_env, counter_text, caller_text, url, build_ok) ==
    /\ ctor.pc = "idle"
    /\ ReadsEnv(entry) \/ e = EmptyEnvironment
    /\ TakesTag(entry) \/ deployment_env = ""
    /\ TakesIds(entry) \/ (counter_text = "" /\ caller_text = "")
    /\ IF TakesUrl(entry) THEN url \in Urls ELSE url = <<>>
    /\ LET args == Resolve(entry, e, deployment_env, counter_text, caller_text, url)
           started == [ctor EXCEPT !.entry = entry,
                                   !.env = e,
                                   !.deployment_env = deployment_env,
                                   !.counter_text = counter_text,
                                   !.caller_text = caller_text,
                                   !.url = url,
                                   !.build_ok = build_ok,
                                   !.loaded = IF ReadsEnv(entry)
                                              THEN load_env_config(e)
                                              ELSE NotLoaded,
                                   !.args = args]
           agent == NewAgent(args.replica_url, build_ok)
           built == NewParse(agent.agent, args.counter_canister_id,
                             args.caller_canister_id)
       IN  IF ~args.ok
           THEN /\ build_ok
                /\ ctor' = Finished(started,
                                    [ok |-> FALSE, client |-> NoClient, err |-> args.err])
                /\ UNCHANGED net
           ELSE IF ~agent.ok
           THEN /\ ctor' = Finished(started,
                                    [ok |-> FALSE, client |-> NoClient, err |-> agent.err])
                /\ UNCHANGED net
           ELSE IF RequiresRootKey(args.replica_url)
           THEN /\ ctor' = [started EXCEPT !.pc = "bootstrap"]
                /\ net' = [net EXCEPT !.agents_built = @ + 1,
                                      !.root_key_requests = @ + 1]
           ELSE /\ ctor' = Finished(started, built)
                /\ net' = [net EXCEPT !.agents_built = @ + 1]

\* the same, called by the owner of the handle
ConstructBegin(entry, e, deployment_env, counter_text, caller_text, url, build_ok) ==
    /\ ConstructBeginOn(entry, e, deployment_env, counter_text, caller_text, url,
                        build_ok)
    /\ UNCHANGED <<client, counter, calls, util, server, browser>>

\* The root key round trip completes, and ICClient::new runs to its end.
BootstrapReply(fetch_ok) ==
    /\ ctor.pc = "bootstrap"
    /\ LET fetched == FetchRootKey(SomeAgent(ctor.args.replica_url, FALSE), fetch_ok)
           built == IF fetched.ok
                    THEN NewParse(fetched.agent, ctor.args.counter_canister_id,
                                  ctor.args.caller_canister_id)
                    ELSE [ok |-> FALSE, client |-> NoClient, err |-> fetched.err]
       IN  ctor' = Finished([ctor EXCEPT !.fetch_ok = fetch_ok], built)
    /\ UNCHANGED <<client, net, counter, calls, util, server, browser>>

\* The caller of the entry point takes its result: on Ok it now owns the
\* handle, on Err it owns none. The inputs of the construction are gone.
Adopt ==
    /\ ctor.pc = "done"
    /\ client' = ctor.returned
    /\ ctor' = ClosedCtor
    /\ UNCHANGED <<net, counter, calls, util, server, browser>>

\* The handle crosses a serialization boundary: the owner now holds the
\* deserialized value.
SerdeRoundTrip ==
    /\ client.present
    /\ client.agent.some
    /\ client' = Deserialize(Serialize(client))
    /\ UNCHANGED <<ctor, net, counter, calls, util, server, browser>>

\* ------------------------------------------------------------------------
\* Operations
\* ------------------------------------------------------------------------

\* the operation has returned to the dispatcher, and the dispatcher to its
\* caller
Completed(call, returned) ==
    [call EXCEPT !.pc = "done",
                 !.result = returned,
                 !.outcome = execute_counter_action(call.action, returned)]

\* The operation runs on the handle up to its first suspension: the update
\* call goes out, or the operation returns at once when the handle has no
\* agent.
CallSendOn(self, id, action) ==
    LET call == [calls[id] EXCEPT !.action = action]
    IN  IF self.agent.some
        THEN /\ calls' = [calls EXCEPT ![id] =
                             [call EXCEPT !.pc = "sent",
                                          !.request = RequestOf(action, self)]]
             /\ net' = [net EXCEPT !.updates = @ + 1]
        ELSE /\ calls' = [calls EXCEPT ![id] = Completed(call, AgentNotAvailable)]
             /\ UNCHANGED net

\* an operation that sends its request whether the handle has an agent or not
CallIssueOnSending(self, id, action) ==
    /\ self.present
    /\ calls[id].pc = "idle"
    /\ \A j \in DOMAIN calls : j < id => calls[j].pc # "idle"
    /\ calls' = [calls EXCEPT ![id] =
                    [@ EXCEPT !.pc = "sent", !.action = action,
                              !.request = RequestOf(action, self)]]
    /\ net' = [net EXCEPT !.updates = @ + 1]

\* The dispatcher is called with an action and invokes the operation on the
\* handle: the update call goes out, or the operation returns at once when
\* the handle has no agent.
CallIssueOn(self, id, action) ==
    /\ self.present
    /\ calls[id].pc = "idle"
    /\ \A j \in DOMAIN calls : j < id => calls[j].pc # "idle"
    /\ CallSendOn(self, id, action)

\* the same, on the handle its owner holds
CallIssue(id, action) ==
    /\ CallIssueOn(client, id, action)
    /\ UNCHANGED <<ctor, client, counter, util, server, browser>>

\* the same, by a caller that awaits each operation before the next
SeqCallIssue(id, action) ==
    /\ \A j \in DOMAIN calls : calls[j].pc \in {"idle", "done"}
    /\ CallIssue(id, action)

\* the counter after the relay has run a method on it
Apply(method_name, n) ==
    CASE method_name = "call_increment" -> n + 1
      [] method_name = "call_decrement" -> n - 1
      [] OTHER -> n

\* The relay executes the call: it runs the method on the counter and
\* answers Ok(value), or it reports a failure in its Err arm.
RelayExecute(id, arm, message) ==
    /\ calls[id].pc = "sent"
    /\ arm = "Ok" => (calls[id].request.method_name = "call_decrement" => counter > 0)
    /\ LET after == IF arm = "Ok" THEN Apply(calls[id].request.method_name, counter)
                    ELSE counter
           bytes == IF arm = "Ok" THEN EncodeOk(after) ELSE EncodeErr(message)
       IN  /\ counter' = after
           /\ calls' = [calls EXCEPT ![id] =
                           [@ EXCEPT !.pc = "replied", !.response = Reply(bytes)]]
    /\ UNCHANGED <<ctor, client, net, util, server, browser>>

\* The canister answers with bytes that are not an encoded result.
RelayMalformed(id, bytes) ==
    /\ calls[id].pc = "sent"
    /\ calls' = [calls EXCEPT ![id] =
                    [@ EXCEPT !.pc = "replied", !.response = Reply(bytes)]]
    /\ UNCHANGED <<ctor, client, net, counter, util, server, browser>>

\* a transport failure that takes every round trip in flight down with it
TransportFailShared(id, cause) ==
    /\ calls[id].pc \in {"sent", "replied"}
    /\ calls' = [j \in DOMAIN calls |->
                    IF calls[j].pc \in {"sent", "replied"}
                    THEN [calls[j] EXCEPT !.pc = "failed",
                                          !.response = TransportFailure(cause)]
                    ELSE calls[j]]
    /\ UNCHANGED <<ctor, client, net, counter, util, server, browser>>

\* The round trip fails, before or after the relay has executed the call.
TransportFail(id, cause) ==
    /\ calls[id].pc \in {"sent", "replied"}
    /\ calls' = [calls EXCEPT ![id] =
                    [@ EXCEPT !.pc = "failed", !.response = TransportFailure(cause)]]
    /\ UNCHANGED <<ctor, client, net, counter, util, server, browser>>

\* a return that drops the agent of the handle when the operation failed
CallReturnInvalidating(id) ==
    /\ calls[id].pc \in {"replied", "failed"}
    /\ calls' = [calls EXCEPT ![id] =
                    Completed(@, ReturnOf(@.action, @.response))]
    /\ client' = IF ReturnOf(calls[id].action, calls[id].response).state = "err"
                 THEN [client EXCEPT !.agent = NoAgent]
                 ELSE client
    /\ UNCHANGED <<ctor, net, counter, util, server, browser>>

\* a return that sends the request again when the round trip failed
CallReturnRetrying(id) ==
    /\ calls[id].pc \in {"replied", "failed"}
    /\ IF calls[id].response.kind = "transport"
       THEN /\ calls' = [calls EXCEPT ![id] =
                            [@ EXCEPT !.pc = "sent", !.response = NoResponse]]
            /\ net' = [net EXCEPT !.updates = @ + 1]
       ELSE /\ calls' = [calls EXCEPT ![id] =
                            Completed(@, ReturnOf(@.action, @.response))]
            /\ UNCHANGED net
    /\ UNCHANGED <<ctor, client, counter, util, server, browser>>

\* call_and_wait completes, the operation returns to the dispatcher and the
\* dispatcher to its caller.
CallReturn(id) ==
    /\ calls[id].pc \in {"replied", "failed"}
    /\ calls' = [calls EXCEPT ![id] =
                    Completed(@, ReturnOf(@.action, @.response))]
    /\ UNCHANGED <<ctor, client, net, counter, util, server, browser>>

\* ------------------------------------------------------------------------
\* Utility methods
\* ------------------------------------------------------------------------

\* The owner of the handle calls get_principal on it.
GetPrincipal(sender) ==
    /\ client.present
    /\ LET found == get_principal(client, sender)
       IN  util' = [op |-> "get_principal", state |-> found.state,
                    principal |-> found.principal, ids |-> <<>>, err |-> found.err]
    /\ UNCHANGED <<ctor, client, net, counter, calls, server, browser>>

\* The owner of the handle calls get_canister_ids on it.
GetCanisterIds ==
    /\ client.present
    /\ util' = [op |-> "get_canister_ids", state |-> "ok", principal |-> <<>>,
                ids |-> get_canister_ids(client), err |-> <<>>]
    /\ UNCHANGED <<ctor, client, net, counter, calls, server, browser>>

\* ------------------------------------------------------------------------
\* The web server process
\* ------------------------------------------------------------------------

\* main starts: create_client_from_config(&ICConfig::default_mainnet()) runs
\* up to its first suspension or to its end.
MainStart(build_ok) ==
    /\ server.pc = "off"
    /\ ConstructBeginOn("main", EmptyEnvironment, "", "", "", <<>>, build_ok)
    /\ server' = [server EXCEPT !.pc = "constructing", !.constructions = @ + 1]
    /\ UNCHANGED <<client, counter, calls, util, browser>>

\* main takes the result of the construction: on Err it returns the error
\* (the ? operator); on Ok it loads the leptos configuration, panics when
\* that fails (unwrap), and otherwise builds the router, whose context
\* closure holds a clone of the handle.
MainAdopt(conf_ok) ==
    /\ server.pc = "constructing"
    /\ ctor.pc = "done"
    /\ IF ctor.result.state = "err"
       THEN /\ conf_ok
            /\ server' = [server EXCEPT !.pc = "exited"]
            /\ UNCHANGED client
       ELSE IF ~conf_ok
       THEN /\ client' = ctor.returned
            /\ server' = [server EXCEPT !.pc = "panicked"]
       ELSE /\ client' = ctor.returned
            /\ server' = [server EXCEPT !.pc = "routes",
                                        !.context = Clone(ctor.returned)]
    /\ UNCHANGED <<ctor, net, counter, calls, util, browser>>

\* main binds the listener and serves; a failed bind panics (unwrap).
MainListen(bind_ok) ==
    /\ server.pc = "routes"
    /\ server' = [server EXCEPT !.pc = IF bind_ok THEN "serving" ELSE "panicked"]
    /\ UNCHANGED <<ctor, client, net, counter, calls, util, browser>>

\* a request handler that builds an agent of its own for the request
ServerRequestConstructing(id, action) ==
    /\ server.pc = "serving"
    /\ calls[id].pc = "idle"
    /\ \A j \in DOMAIN calls : j < id => calls[j].pc # "idle"
    /\ calls' = [calls EXCEPT ![id] =
                    [@ EXCEPT !.pc = "sent", !.action = action,
                              !.request = RequestOf(action, server.context)]]
    /\ net' = [net EXCEPT !.agents_built = @ + 1, !.updates = @ + 1]
    /\ UNCHANGED <<ctor, client, counter, util, server, browser>>

\* A request arrives: the context closure provides a clone of the handle,
\* execute_counter_action takes it with expect_context and calls the
\* operation of its action on it.
ServerRequest(id, action) ==
    /\ server.pc = "serving"
    /\ CallIssueOn(Clone(server.context), id, action)
    /\ UNCHANGED <<ctor, client, counter, util, server, browser>>

\* ------------------------------------------------------------------------
\* The page in the browser
\* ------------------------------------------------------------------------

\* what ClientCallerButtons shows for a value of the signal: the three
\* buttons with their click handlers when it holds a client, the three
\* disabled placeholders when it is empty
ClientButtons(signal) == IF signal.some THEN "enabled" ELSE "disabled"

\* App is mounted: the signal is created, empty.
AppMount ==
    /\ browser.pc = "off"
    /\ browser' = [browser EXCEPT !.pc = "mounted", !.signal = None]
    /\ UNCHANGED <<ctor, client, net, counter, calls, util, server>>

\* The effect of App runs: it hands the construction task to spawn_local
\* and returns; nothing is built yet.
EffectRun ==
    /\ browser.pc = "mounted"
    /\ browser' = [browser EXCEPT !.pc = "spawned"]
    /\ UNCHANGED <<ctor, client, net, counter, calls, util, server>>

\* The executor polls the construction task for the first time: it calls
\* create_local_client with the two literal texts, up to its first
\* suspension or to its end.
EffectTaskPoll(build_ok) ==
    /\ browser.pc = "spawned"
    /\ ConstructBeginOn("create_local_client", EmptyEnvironment, "",
                        "u6s2n-gx777-77774-qaaba-cai", "uxrrr-q7777-77774-qaaaq-cai",
                        <<>>, build_ok)
    /\ browser' = [browser EXCEPT !.pc = "constructing", !.constructions = @ + 1]
    /\ UNCHANGED <<client, counter, calls, util, server>>

\* a task that starts the construction again when it has failed
EffectSettleRetrying ==
    /\ browser.pc = "constructing"
    /\ ctor.pc = "done"
    /\ IF ctor.result.state = "ok"
       THEN /\ browser' = [browser EXCEPT !.pc = "settled",
                                          !.signal = Some(ctor.returned)]
            /\ UNCHANGED ctor
       ELSE /\ browser' = [browser EXCEPT !.pc = "mounted", !.signal = None]
            /\ ctor' = IdleCtor
    /\ UNCHANGED <<client, net, counter, calls, util, server>>

\* The spawned task takes the result of the construction: on Ok it sets the
\* signal to the client, on Err it sets it to None; the task ends.
EffectSettle ==
    /\ browser.pc = "constructing"
    /\ ctor.pc = "done"
    /\ browser' = [browser EXCEPT !.pc = "settled",
                                  !.signal = IF ctor.result.state = "ok"
                                             THEN Some(ctor.returned)
                                             ELSE None]
    /\ UNCHANGED <<ctor, client, net, counter, calls, util, server>>

\* A client button is clicked: the handler exists only while the buttons
\* are shown; it clones the client taken from the signal, hands the task of
\* the button's operation to spawn_local and returns; nothing is sent yet.
ClientClick(id, action) ==
    /\ ClientButtons(browser.signal) = "enabled"
    /\ calls[id].pc = "idle"
    /\ \A j \in DOMAIN calls : j < id => calls[j].pc # "idle"
    /\ calls' = [calls EXCEPT ![id] = [@ EXCEPT !.pc = "spawned", !.action = action]]
    /\ UNCHANGED <<ctor, client, net, counter, util, server, browser>>

\* The executor polls a spawned task for the first time, the tasks in the
\* order in which they were spawned: the operation runs on the clone the
\* handler took, which is the client the signal holds (the signal is not
\* set again once it holds one).
ClientTaskPoll(id) ==
    /\ calls[id].pc = "spawned"
    /\ \A j \in DOMAIN calls : j < id => calls[j].pc # "spawned"
    /\ CallSendOn(Clone(browser.signal.val), id, calls[id].action)
    /\ UNCHANGED <<ctor, client, counter, util, server, browser>>

\* ------------------------------------------------------------------------
\* Specifications
\* ------------------------------------------------------------------------

Construct ==
    /\ ctor.pc = "idle"
    /\ \E entry \in Entries :
       \E e \in IF ReadsEnv(entry) THEN Environments ELSE {EmptyEnvironment},
          deployment_env \in IF TakesTag(entry) THEN EnvTags ELSE {""},
          counter_text \in IF TakesIds(entry) THEN CounterTexts ELSE {""},
          caller_text \in IF TakesIds(entry) THEN CallerTexts ELSE {""},
          url \in IF TakesUrl(entry) THEN Urls ELSE {<<>>},
          build_ok \in BOOLEAN :
          ConstructBegin(entry, e, deployment_env, counter_text, caller_text, url,
                         build_ok)

Remote ==
    \/ \E id \in DOMAIN calls, arm \in {"Ok", "Err"}, message \in RemoteMessages :
          RelayExecute(id, arm, message)
    \/ \E id \in DOMAIN calls, bytes \in MalformedReplies : RelayMalformed(id, bytes)
    \/ \E id \in DOMAIN calls, cause \in TransportCauses : TransportFail(id, cause)

\* callers that share the handle and issue operations in any interleaving
Next ==
    \/ Construct
    \/ \E fetch_ok \in BOOLEAN : BootstrapReply(fetch_ok)
    \/ Adopt
    \/ SerdeRoundTrip
    \/ \E id \in DOMAIN calls, action \in Actions : CallIssue(id, action)
    \/ Remote
    \/ \E id \in DOMAIN calls : CallReturn(id)

Spec == Init /\ [][Next]_vars

\* a single caller that awaits each operation before it issues the next
InitSeq == InitWith(MaxSeqCalls)

NextSeq ==
    \/ Construct
    \/ \E fetch_ok \in BOOLEAN : BootstrapReply(fetch_ok)
    \/ Adopt
    \/ \E id \in DOMAIN calls, action \in Actions : SeqCallIssue(id, action)
    \/ Remote
    \/ \E id \in DOMAIN calls : CallReturn(id)

SpecSeq == InitSeq /\ [][NextSeq]_vars

\* a single caller that also calls the utility methods, on a handle that may
\* cross a serialization boundary
InitUtil == InitWith(MaxUtilCalls)

NextUtil ==
    \/ Construct
    \/ \E fetch_ok \in BOOLEAN : BootstrapReply(fetch_ok)
    \/ Adopt
    \/ SerdeRoundTrip
    \/ \E sender \in Senders : GetPrincipal(sender)
    \/ GetCanisterIds
    \/ \E id \in DOMAIN calls, action \in Actions : SeqCallIssue(id, action)
    \/ Remote
    \/ \E id \in DOMAIN calls : CallReturn(id)

SpecUtil == InitUtil /\ [][NextUtil]_vars

\* the page in the browser: the construction of its client and the clicks
\* on its client buttons, whose operations run concurrently
InitBrowser == InitWith(MaxClicks)

NextBrowser ==
    \/ AppMount
    \/ EffectRun
    \/ \E build_ok \in BOOLEAN : EffectTaskPoll(build_ok)
    \/ \E fetch_ok \in BOOLEAN : BootstrapReply(fetch_ok)
    \/ EffectSettle
    \/ \E id \in DOMAIN calls, action \in Actions : ClientClick(id, action)
    \/ \E id \in DOMAIN calls : ClientTaskPoll(id)
    \/ Remote
    \/ \E id \in DOMAIN calls : CallReturn(id)

SpecBrowser == InitBrowser /\ [][NextBrowser]_vars

\* every way in which the repository constructs a client, up to the return
\* of the construction
NextConfig ==
    \/ Construct
    \/ \E build_ok \in BOOLEAN : MainStart(build_ok)
    \/ \E fetch_ok \in BOOLEAN : BootstrapReply(fetch_ok)

SpecConfig == Init /\ [][NextConfig]_vars

\* the web server: main, and the requests it serves concurrently
InitServer == InitWith(MaxRequests)

NextServer ==
    \/ \E build_ok \in BOOLEAN : MainStart(build_ok)
    \/ \E conf_ok \in BOOLEAN : MainAdopt(conf_ok)
    \/ \E bind_ok \in BOOLEAN : MainListen(bind_ok)
    \/ \E id \in DOMAIN calls, action \in Actions : ServerRequest(id, action)
    \/ Remote
    \/ \E id \in DOMAIN calls : CallReturn(id)

SpecServer == InitServer /\ [][NextServer]_vars

\* ------------------------------------------------------------------------
\* Vocabulary of the properties
\* ------------------------------------------------------------------------

\* the error kind a message stands for
Kind(err) ==
    IF err = <<>> THEN "none"
    ELSE CASE err[1] = "Invalid DEPLOYMENT_ENV: " -> "InvalidEnvironment"
           [] err[1] \in {"COUNTER_CANISTER_ID environment variable not set",
                          "CALLER_CANISTER_ID environment variable not set"} ->
                 "MissingTarget"
           [] err[1] = "Failed to create agent: " -> "AgentCreationFailed"
           [] err[1] = "Failed to fetch root key: " -> "TrustBootstrapFailed"
           [] err[1] \in {"Invalid counter canister ID: ",
                          "Invalid caller canister ID: "} -> "InvalidIdentity"
           [] err[1] = "Update failed: " -> "RemoteCallFailed"
           [] err[1] = "Failed to decode response: " -> "DecodeFailed"
           [] err[1] = "Error: " -> "RemoteError"
           [] OTHER -> "other"

\* the message of an error contains a string
Mentions(err, string) == Contains(Spell(err), Chars(string))

\* a construction is under way or has returned, and its inputs are known
Constructing == ctor.pc \in {"bootstrap", "done"}

\* the construction looked its configuration up in the environment and
\* found both target identifiers
LookedUp ==
    /\ ctor.entry = "create_client_ssr"
    /\ ctor.env.COUNTER_CANISTER_ID.set
    /\ ctor.env.CALLER_CANISTER_ID.set

\* the construction went through create_client_with_config with this tag
ConfiguredWith(tag) ==
    \/ ctor.entry \in {"create_client_with_config", "create_client_from_config"}
       /\ ctor.deployment_env = tag
    \/ LookedUp /\ ctor.env.DEPLOYMENT_ENV = SetTo(tag)
    \/ LookedUp /\ ctor.env.DEPLOYMENT_ENV = Unset /\ tag = "local"
    \/ ctor.entry = "create_client_wasm" /\ tag = "local"

\* no operation has been issued yet
NoCallYet == \A id \in DOMAIN calls : calls[id].pc = "idle"

\* ------------------------------------------------------------------------
\* Properties
\* ------------------------------------------------------------------------

\* C1: a construction by configuration whose environment tag is neither
\* "local" nor "prod" has returned an InvalidEnvironment error whose message
\* contains the tag; no client was built and nothing went out on the network.
C1_InvalidEnvironmentRejected ==
    \A tag \in EnvTags \ {"local", "prod"} :
        (Constructing /\ ConfiguredWith(tag)) =>
            /\ ctor.pc = "done"
            /\ ctor.result.state = "err"
            /\ Kind(ctor.result.err) = "InvalidEnvironment"
            /\ Mentions(ctor.result.err, tag)
            /\ ~ctor.returned.present
            /\ ~client.present
            /\ net = NoTraffic

C1_Witness ==
    /\ ctor.pc = "done"
    /\ ctor.entry = "create_client_from_config"
    /\ ctor.deployment_env = "PROD"
    /\ ctor.counter_text = CounterText
    /\ ctor.caller_text = CallerText
    /\ Kind(ctor.result.err) = "InvalidEnvironment"

\* C2: a construction for "local" targets http://127.0.0.1:4943 and, once
\* its agent is built, has made exactly one root key round trip, which is
\* over before a client is returned; a construction for "prod" targets
\* https://ic0.app and makes none. No operation is issued before the
\* construction has returned and its client has been taken.
C2_BootstrapBeforeUse ==
    /\ (Constructing /\ ConfiguredWith("local") /\ ctor.args.ok) =>
            /\ ctor.args.replica_url = LocalUrl
            /\ ctor.build_ok => net.root_key_requests = 1
            /\ ctor.returned.present =>
                   /\ ctor.returned.agent.url = LocalUrl
                   /\ ctor.returned.agent.root_key
    /\ (Constructing /\ ConfiguredWith("prod") /\ ctor.args.ok) =>
            /\ ctor.pc = "done"
            /\ ctor.args.replica_url = MainnetUrl
            /\ net.root_key_requests = 0
            /\ ctor.returned.present =>
                   ctor.returned.agent.url = MainnetUrl
    /\ ctor.pc # "closed" => (NoCallYet /\ ~client.present /\ net.updates = 0)
    /\ net.root_key_requests <= 1

C2_Witness ==
    /\ ctor.pc = "done"
    /\ ConfiguredWith("local")
    /\ ctor.returned.present
    /\ net.root_key_requests = 1

\* C3: a construction by environment lookup that finds COUNTER_CANISTER_ID
\* or CALLER_CANISTER_ID unset has returned a MissingTarget error, whatever
\* DEPLOYMENT_ENV is, and nothing went out on the network.
C3_MissingTargetBeforeIO ==
    (/\ Constructing
     /\ ctor.entry = "create_client_ssr"
     /\ (~ctor.env.COUNTER_CANISTER_ID.set \/ ~ctor.env.CALLER_CANISTER_ID.set)) =>
        /\ ctor.pc = "done"
        /\ ctor.result.state = "err"
        /\ Kind(ctor.result.err) = "MissingTarget"
        /\ ~ctor.returned.present
        /\ net = NoTraffic

C3_Witness ==
    /\ ctor.pc = "done"
    /\ ctor.entry = "create_client_ssr"
    /\ ~ctor.env.COUNTER_CANISTER_ID.set
    /\ ctor.env.CALLER_CANISTER_ID.set
    /\ ctor.env.DEPLOYMENT_ENV = SetTo("invalid")
    /\ Kind(ctor.result.err) = "MissingTarget"

\* C4: when the relay's reply decodes to Err(message), the dispatcher returns
\* a CallerResult with success = false and error = Some(message), and the
\* failure is not reported as a decode failure.
C4_RemoteErrorIsFailedOutcome ==
    \A id \in DOMAIN calls : \A message \in RemoteMessages :
        (calls[id].pc = "done" /\ calls[id].response = Reply(EncodeErr(message))) =>
            /\ calls[id].outcome.state = "Ok"
            /\ ~calls[id].outcome.result.success
            /\ calls[id].outcome.result.error.some
            /\ Mentions(calls[id].outcome.result.error.val, message)
            /\ Kind(calls[id].result.err) # "DecodeFailed"

\* C5: an operation whose round trip failed returns RemoteCallFailed, one
\* whose reply is malformed or truncated returns DecodeFailed, one whose
\* reply is a well-formed Err(message) returns RemoteError with the message;
\* a value is returned only for a well-formed Ok reply.
C5_FailureKindsDistinct ==
    \A id \in DOMAIN calls :
        LET c == calls[id]
        IN  (c.pc = "done" /\ c.response.kind # "none") =>
                /\ c.response.kind = "transport" =>
                       /\ c.result.state = "err"
                       /\ Kind(c.result.err) = "RemoteCallFailed"
                       /\ Mentions(c.result.err, c.response.cause)
                /\ (c.response.kind = "reply" /\ c.response.bytes \in MalformedReplies) =>
                       /\ c.result.state = "err"
                       /\ Kind(c.result.err) = "DecodeFailed"
                /\ \A message \in RemoteMessages :
                       c.response = Reply(EncodeErr(message)) =>
                           /\ c.result.state = "err"
                           /\ Kind(c.result.err) = "RemoteError"
                           /\ Mentions(c.result.err, message)
                /\ c.result.state = "ok" =>
                       /\ c.response.kind = "reply"
                       /\ Len(c.response.bytes) = 4
                       /\ c.response.bytes = EncodeOk(c.response.bytes[4].n)

C5_Witness ==
    \E id \in DOMAIN calls :
        /\ calls[id].pc = "done"
        /\ calls[id].response = Reply(<<Magic, TypeTok(ResultType), VariantTok(1)>>)
        /\ Kind(calls[id].result.err) = "DecodeFailed"

\* C6: every CallerResult the dispatcher returns has no error when success
\* is true and an error when success is false.
C6_OutcomeConsistent ==
    \A id \in DOMAIN calls :
        calls[id].outcome.state = "Ok" =>
            /\ calls[id].outcome.result.success => ~calls[id].outcome.result.error.some
            /\ ~calls[id].outcome.result.success => calls[id].outcome.result.error.some

C6_Witness ==
    \E id \in DOMAIN calls :
        /\ calls[id].outcome.state = "Ok"
        /\ calls[id].outcome.result.success
        /\ calls[id].outcome.result.action = "Decrement"

\* C7: when a single caller's successive awaited get, increment and get all
\* succeed, the second get returns the value of the first plus one.
C7_GetIncrementGet ==
    \A id \in DOMAIN calls :
        (/\ id + 2 \in DOMAIN calls
         /\ calls[id].action = "Get" /\ calls[id].result.state = "ok"
         /\ calls[id + 1].action = "Increment" /\ calls[id + 1].result.state = "ok"
         /\ calls[id + 2].action = "Get" /\ calls[id + 2].result.state = "ok") =>
            LET v == calls[id].response.bytes[4].n
            IN  /\ calls[id].result.value = NatToString(v)
                /\ calls[id + 2].result.value = NatToString(v + 1)

C7_Witness ==
    /\ calls[1].action = "Get" /\ calls[1].result = OkResult("999")
    /\ calls[2].action = "Increment" /\ calls[2].result.state = "ok"
    /\ calls[3].action = "Get" /\ calls[3].result = OkResult("1_000")

\* C8: a construction returns a client exactly when it returns Ok, and only
\* when the agent was built, the root key was fetched where the URL needs
\* it and both identity texts parsed; the client returned has its agent
\* set. No client exists while the construction is idle or suspended, and
\* an owner holds a client only once the construction has returned it.
C8_AllOrNothing ==
    /\ ctor.pc = "done" =>
            /\ ctor.returned.present <=> ctor.result.state = "ok"
            /\ ctor.result.state = "err" => ctor.returned = NoClient
            /\ ctor.returned.present =>
                   /\ ctor.args.ok
                   /\ ctor.build_ok
                   /\ ctor.returned.agent.some
                   /\ ctor.returned.agent.url = ctor.args.replica_url
                   /\ RequiresRootKey(ctor.args.replica_url) =>
                          (ctor.fetch_ok /\ ctor.returned.agent.root_key)
                   /\ ctor.args.counter_canister_id \in WellFormedTexts
                   /\ ctor.args.caller_canister_id \in WellFormedTexts
                   /\ ctor.returned.counter_canister_id =
                          PrincipalBytes(ctor.args.counter_canister_id)
                   /\ ctor.returned.caller_canister_id =
                          PrincipalBytes(ctor.args.caller_canister_id)
    /\ ctor.pc \in {"idle", "bootstrap"} => ~ctor.returned.present
    /\ client.present => ctor.pc = "closed"

C8_Witness ==
    /\ ctor.pc = "done"
    /\ ctor.entry = "new"
    /\ ctor.url = LocalhostUrl
    /\ ctor.returned.present
    /\ ctor.returned.agent.root_key

\* C9: a step of an operation, whether it issues the call or returns a
\* value or an error, leaves the handle as it was; and the call an operation
\* issues is addressed and argued from the handle's identities alone.
C9_OperationsLeaveHandle ==
    [][calls' # calls =>
          /\ client' = client
          /\ \A id \in DOMAIN calls :
                 (calls[id].pc = "idle" /\ calls'[id].pc = "sent") =>
                     /\ calls'[id].request.canister_id = client.caller_canister_id
                     /\ calls'[id].request.arg = encode_args(client.counter_canister_id)]_vars

C9_Witness ==
    /\ calls[1].pc = "done"
    /\ calls[1].result.state = "err"
    /\ calls[2].pc = "sent"
    /\ client.agent.some

\* C10: a construction given an identity text that does not parse returns
\* no client; when its parse step is reached, the error is InvalidIdentity
\* and names the identity that failed to parse. No operation on a handle
\* fails with InvalidIdentity.
C10_InvalidIdentityAtConstruction ==
    /\ (/\ ctor.pc = "done"
        /\ ctor.args.ok
        /\ \/ ctor.args.counter_canister_id \notin WellFormedTexts
           \/ ctor.args.caller_canister_id \notin WellFormedTexts) =>
            /\ ctor.result.state = "err"
            /\ ~ctor.returned.present
            /\ (ctor.build_ok /\ (RequiresRootKey(ctor.args.replica_url) => ctor.fetch_ok)) =>
                   /\ Kind(ctor.result.err) = "InvalidIdentity"
                   /\ ctor.result.err[1] =
                          IF ctor.args.counter_canister_id \notin WellFormedTexts
                          THEN "Invalid counter canister ID: "
                          ELSE "Invalid caller canister ID: "
    /\ \A id \in DOMAIN calls : Kind(calls[id].result.err) # "InvalidIdentity"

C10_Witness ==
    /\ ctor.pc = "done"
    /\ ctor.entry = "create_mainnet_client"
    /\ ctor.counter_text = CounterText
    /\ ctor.caller_text = "not a principal"
    /\ ctor.result.err[1] = "Invalid caller canister ID: "

\* ------------------------------------------------------------------------
\* C11  The environment lookup returns the three variables as they are
\* ------------------------------------------------------------------------

\* the construction read the process environment and found both identities
LoadedFromEnv == Constructing /\ LookedUp

\* C11: when both identity variables are set, load_env_config succeeds and
\* its record holds the value of COUNTER_CANISTER_ID, the value of
\* CALLER_CANISTER_ID and the value of DEPLOYMENT_ENV, or "local" when
\* DEPLOYMENT_ENV is unset; an identity text that is no principal is
\* returned as it is, neither refused nor replaced.
C11_EnvConfigVerbatim ==
    LoadedFromEnv =>
        /\ ctor.loaded.ok
        /\ ctor.loaded.err = <<>>
        /\ ctor.loaded.config.counter_canister_id = ctor.env.COUNTER_CANISTER_ID.val
        /\ ctor.loaded.config.caller_canister_id = ctor.env.CALLER_CANISTER_ID.val
        /\ ctor.env.DEPLOYMENT_ENV.set =>
                ctor.loaded.config.deployment_env = ctor.env.DEPLOYMENT_ENV.val
        /\ ~ctor.env.DEPLOYMENT_ENV.set =>
                ctor.loaded.config.deployment_env = "local"

\* the tag is unset and the counter identity is no principal: the record
\* says "local" and carries the text unchanged
C11_Witness ==
    /\ LoadedFromEnv
    /\ ~ctor.env.DEPLOYMENT_ENV.set
    /\ ctor.env.COUNTER_CANISTER_ID.val \in BadTexts
    /\ ctor.loaded.ok
    /\ ctor.loaded.config.deployment_env = "local"
    /\ ctor.loaded.config.counter_canister_id \in BadTexts

\* ------------------------------------------------------------------------
\* C12  One round trip per operation
\* ------------------------------------------------------------------------

\* the operations that have sent their request
Requested == {id \in DOMAIN calls : calls[id].request # NoRequest}

\* C12: the update requests that have gone out are one for each operation
\* that sent its request, whatever the operation has come to since (waiting,
\* answered, failed in transport, returned with a value or with a transport,
\* decode or remote failure); an operation that sent none has returned the
\* error of the missing agent.
C12_SingleRoundTrip ==
    /\ net.updates = Cardinality(Requested)
    /\ \A id \in DOMAIN calls \ Requested :
          \/ calls[id].pc = "idle"
          \/ calls[id].pc = "done" /\ calls[id].result = AgentNotAvailable

\* an operation has returned a transport failure, another a decode failure or
\* a remote failure, and two requests went out in all
C12_Witness ==
    /\ net.updates = 2
    /\ \E id, other \in DOMAIN calls :
          /\ calls[id].pc = "done"
          /\ Kind(calls[id].result.err) = "RemoteCallFailed"
          /\ calls[other].pc = "done"
          /\ Kind(calls[other].result.err) \in {"DecodeFailed", "RemoteError"}

\* ------------------------------------------------------------------------
\* C13  What each operation sends
\* ------------------------------------------------------------------------

\* the remote method an action's operation names
MethodOf(action) ==
    CASE action = "Get" -> "call_get"
      [] action = "Increment" -> "call_increment"
      [] action = "Decrement" -> "call_decrement"

\* C13: every request an operation has sent is an update call addressed to
\* the relay identity of the handle, its argument tuple holds the counter
\* identity of the handle and nothing else, and it names call_get for get,
\* call_increment for increment and call_decrement for decrement; the
\* operation returns only once the update call has completed, with the reply
\* or with a transport failure.
C13_RequestShape ==
    \A id \in Requested :
        /\ calls[id].request.mode = "update"
        /\ calls[id].request.canister_id = client.caller_canister_id
        /\ calls[id].request.arg =
              <<Magic, TypeTok("principal"), PrincipalTok(client.counter_canister_id)>>
        /\ calls[id].request.method_name = MethodOf(calls[id].action)
        /\ calls[id].pc = "done" => calls[id].response.kind \in {"reply", "transport"}

\* a get and a decrement have both been sent and have both returned
C13_Witness ==
    \E id, other \in Requested :
        /\ calls[id].action = "Get"
        /\ calls[id].request.method_name = "call_get"
        /\ calls[id].pc = "done"
        /\ calls[other].action = "Decrement"
        /\ calls[other].request.method_name = "call_decrement"
        /\ calls[other].pc = "done"
        /\ client.caller_canister_id # client.counter_canister_id

\* ------------------------------------------------------------------------
\* C18  The dispatcher calls the operation of its action, once
\* ------------------------------------------------------------------------

\* the requests that have invoked the dispatcher
Dispatched == {id \in DOMAIN calls : calls[id].pc # "idle"}

\* C18: a dispatcher invoked with Get has called caller_get, with Increment
\* caller_increment, with Decrement caller_decrement, and no other operation:
\* the request that went out for it is the request of that operation, no
\* more requests went out than dispatchers were invoked, and what it got
\* back is what that operation returns.  When the dispatcher returns a
\* CallerResult, its action is the action it was invoked with and its value
\* is the string the operation returned.
C18_DispatchOneOperation ==
    /\ net.updates <= Cardinality(Dispatched)
    /\ \A id \in Dispatched :
          LET call == calls[id]
          IN  /\ call.action \in Actions
              /\ id \in Requested =>
                    call.request =
                        CASE call.action = "Get" -> caller_get_request(client)
                          [] call.action = "Increment" ->
                                caller_increment_request(client)
                          [] call.action = "Decrement" ->
                                caller_decrement_request(client)
              /\ id \in Requested /\ call.pc = "done" =>
                    call.result =
                        CASE call.action = "Get" -> caller_get_return(call.response)
                          [] call.action = "Increment" ->
                                caller_increment_return(call.response)
                          [] call.action = "Decrement" ->
                                caller_decrement_return(call.response)
              /\ call.pc = "done" /\ call.outcome.state = "Ok" =>
                    /\ call.result.state = "ok"
                    /\ call.outcome.result.action = call.action
                    /\ call.outcome.result.value = call.result.value

\* an Increment has returned the CallerResult of 1000, a Decrement has
\* returned a CallerResult too
C18_Witness ==
    \E id, other \in Dispatched :
        /\ calls[id].action = "Increment"
        /\ calls[id].request.method_name = "call_increment"
        /\ calls[id].outcome.state = "Ok"
        /\ calls[id].outcome.result.action = "Increment"
        /\ calls[id].outcome.result.value = "1_000"
        /\ calls[other].action = "Decrement"
        /\ calls[other].outcome.state = "Ok"
        /\ calls[other].outcome.result.action = "Decrement"

\* ------------------------------------------------------------------------
\* C19  The order in which ICClient::new fails
\* ------------------------------------------------------------------------

\* ICClient::new was called and has returned
NewReturned == ctor.pc = "done" /\ ctor.args.ok

\* C19: when ICClient::new has returned, a failed agent build has given
\* AgentCreationFailed and no root key request; otherwise, on a local url, a
\* failed root key fetch has given TrustBootstrapFailed whatever the two
\* identity texts are; otherwise an unparseable counter text has given the
\* error that names the counter, also when the relay text is unparseable
\* too; otherwise an unparseable relay text has given the error that names
\* the relay; otherwise a client.  An InvalidIdentity error on a local url
\* comes after the one root key request, and while that request is pending
\* the construction has no result.
C19_FailurePrecedence ==
    /\ ctor.pc = "bootstrap" =>
          /\ ctor.result = NoResult
          /\ net.root_key_requests = 1
    /\ NewReturned =>
          LET local == RequiresRootKey(ctor.args.replica_url)
              counter_ok == PrincipalFromText(ctor.args.counter_canister_id).ok
              caller_ok == PrincipalFromText(ctor.args.caller_canister_id).ok
              kind == Kind(ctor.result.err)
          IN  /\ IF ~ctor.build_ok
                 THEN kind = "AgentCreationFailed" /\ net.root_key_requests = 0
                 ELSE IF local /\ ~ctor.fetch_ok
                 THEN kind = "TrustBootstrapFailed"
                 ELSE IF ~counter_ok
                 THEN ctor.result.err[1] = "Invalid counter canister ID: "
                 ELSE IF ~caller_ok
                 THEN ctor.result.err[1] = "Invalid caller canister ID: "
                 ELSE ctor.result.state = "ok" /\ ctor.returned.present
              /\ kind = "InvalidIdentity" /\ local => net.root_key_requests = 1
              /\ kind = "InvalidIdentity" /\ ~local => net.root_key_requests = 0

\* on the local url the root key fetch has failed, and the error is its
\* error although neither identity text is a principal
C19_Witness ==
    /\ NewReturned
    /\ RequiresRootKey(ctor.args.replica_url)
    /\ ctor.build_ok
    /\ ~ctor.fetch_ok
    /\ ctor.args.counter_canister_id \in BadTexts
    /\ ctor.args.caller_canister_id \in BadTexts
    /\ Kind(ctor.result.err) = "TrustBootstrapFailed"
    /\ net.root_key_requests = 1

\* ------------------------------------------------------------------------
\* C15  The canned pairs are used only where they are asked for
\* ------------------------------------------------------------------------

\* the identity texts of the two canned pairs
CannedTexts == {ICConfigDefaultLocal.counter_canister_id,
                ICConfigDefaultLocal.caller_canister_id,
                ICConfigDefaultMainnet.counter_canister_id,
                ICConfigDefaultMainnet.caller_canister_id}

\* the entry points that call ICConfig::default_local or
\* ICConfig::default_mainnet themselves
AsksForDefault == {"create_client_wasm", "main"}

\* the environment lookup of the construction missed a target identifier
LookupFailed ==
    /\ Constructing
    /\ ReadsEnv(ctor.entry)
    /\ ~ctor.env.COUNTER_CANISTER_ID.set \/ ~ctor.env.CALLER_CANISTER_ID.set

\* C15: when the environment lookup misses a target identifier, the creation
\* has failed with MissingTarget, ICClient::new was not called with any
\* identity, canned or not, and no agent was built.  Whenever ICClient::new
\* is called with a text of a canned pair, either the entry point is one
\* that takes the canned configuration itself (create_client without the ssr
\* feature the local pair, main the production pair) or that very text was
\* given: passed by the caller, or set in the environment.
C15_NoSilentDefault ==
    /\ LookupFailed =>
          /\ ~ctor.args.ok
          /\ ctor.pc = "done"
          /\ ctor.result.state = "err"
          /\ Kind(ctor.result.err) = "MissingTarget"
          /\ ~ctor.returned.present
          /\ ctor.args.counter_canister_id \notin CannedTexts
          /\ ctor.args.caller_canister_id \notin CannedTexts
          /\ net.agents_built = 0
    /\ Constructing /\ ctor.args.ok /\ ctor.entry \notin AsksForDefault =>
          /\ ctor.args.counter_canister_id \in CannedTexts =>
                ctor.args.counter_canister_id =
                    IF ReadsEnv(ctor.entry) THEN ctor.env.COUNTER_CANISTER_ID.val
                    ELSE ctor.counter_text
          /\ ctor.args.caller_canister_id \in CannedTexts =>
                ctor.args.caller_canister_id =
                    IF ReadsEnv(ctor.entry) THEN ctor.env.CALLER_CANISTER_ID.val
                    ELSE ctor.caller_text
    /\ Constructing /\ ctor.entry = "create_client_wasm" =>
          /\ ctor.args.counter_canister_id = ICConfigDefaultLocal.counter_canister_id
          /\ ctor.args.caller_canister_id = ICConfigDefaultLocal.caller_canister_id
    /\ Constructing /\ ctor.entry = "main" =>
          /\ ctor.args.counter_canister_id = ICConfigDefaultMainnet.counter_canister_id
          /\ ctor.args.caller_canister_id = ICConfigDefaultMainnet.caller_canister_id

\* the counter identifier is unset, the relay identifier is set, the tag
\* says local: the creation has failed and nothing was built
C15_Witness ==
    /\ LookupFailed
    /\ ~ctor.env.COUNTER_CANISTER_ID.set
    /\ ctor.env.CALLER_CANISTER_ID.set
    /\ ctor.env.DEPLOYMENT_ENV = SetTo("local")
    /\ ctor.result.state = "err"
    /\ net.agents_built = 0

\* ------------------------------------------------------------------------
\* C17  The server builds one client, at startup
\* ------------------------------------------------------------------------

\* the server has built its router, or is listening
Started == server.pc \in {"routes", "serving"}

\* C17: the server process constructs at most one client, and exactly one
\* by the time it has built its router: one construction was begun and one
\* agent built, however many requests have been handled since.  A request
\* is handled only while the server is listening, and the request that went
\* out for it was built from the handle main constructed, which is what the
\* context holds.  When the construction has failed, the server has not
\* built its router and is not listening, main has exited, and no request
\* was handled.
C17_OneClientAtStartup ==
    /\ server.constructions <= 1
    /\ net.agents_built <= server.constructions
    /\ Started =>
          /\ server.constructions = 1
          /\ net.agents_built = 1
          /\ ctor.result.state = "ok"
          /\ client = ctor.returned
          /\ client.present /\ client.agent.some
          /\ server.context = client
    /\ Dispatched # {} => server.pc = "serving"
    /\ \A id \in Requested : calls[id].request = RequestOf(calls[id].action, client)
    /\ \A id \in Dispatched : id \in Requested
    /\ ctor.result.state = "err" =>
          /\ server.pc \in {"constructing", "exited"}
          /\ ~client.present
          /\ ~server.context.present
          /\ Dispatched = {}

\* the server is listening, two requests have been handled and have
\* returned, and one agent was built in all
C17_Witness ==
    /\ server.pc = "serving"
    /\ server.constructions = 1
    /\ net.agents_built = 1
    /\ net.updates = 2
    /\ \E id, other \in Dispatched :
          /\ id # other
          /\ calls[id].pc = "done"
          /\ calls[other].pc = "done"

\* ------------------------------------------------------------------------
\* C16  Concurrent operations on one handle are independent
\* ------------------------------------------------------------------------

\* what a step does to the operations on the handle: it moves at most one
\* of them and leaves the handle as it is; an operation issued on a handle
\* with an agent sends its own request, one; an operation that returns gets
\* what the operation makes of its own response; what an operation has
\* returned never changes
IndependentStep ==
    /\ calls' # calls => client' = client
    /\ \A id \in DOMAIN calls :
          /\ calls'[id] # calls[id] =>
                \A other \in DOMAIN calls \ {id} : calls'[other] = calls[other]
          /\ calls[id].pc = "idle" /\ calls'[id].pc # "idle" /\ client.agent.some =>
                /\ calls'[id].pc = "sent"
                /\ calls'[id].request = RequestOf(calls'[id].action, client)
                /\ net'.updates = net.updates + 1
          /\ calls[id].pc \in {"replied", "failed"} /\ calls'[id].pc = "done" =>
                /\ calls'[id].result = OperationReturn(calls[id].response)
                /\ calls'[id].request = calls[id].request
                /\ net'.updates = net.updates
          /\ calls[id].pc = "done" => calls'[id] = calls[id]

\* C16: in every interleaving of the operations issued on the shared handle,
\* every step moves one operation only: each operation sends its own single
\* request and returns the result of its own response, so the transport,
\* decode or remote failure of one is not seen by another that is in flight
\* or issued later, and no step of an operation changes the handle.
C16_IndependentCalls == [][IndependentStep]_vars

\* on a handle with an agent one operation has failed and the other, in
\* flight at the same time or issued later, has returned a value
C16_Witness ==
    /\ client.present
    /\ client.agent.some
    /\ \E id, other \in Requested :
          /\ calls[id].pc = "done"
          /\ calls[id].result.state = "err"
          /\ calls[other].pc = "done"
          /\ calls[other].result.state = "ok"

\* ------------------------------------------------------------------------
\* C14  get_principal and the missing agent
\* ------------------------------------------------------------------------

\* the error of a utility or operation called on a handle without an agent
Unavailable == <<"Agent not available">>

\* what a step does to the agent of the handle and to get_principal: a
\* get_principal call fails with the error of the missing agent exactly when
\* the handle it is called on has none, and gives the principal of the agent
\* otherwise; a handle comes into its owner's hands with an agent; and a
\* handle loses its agent only by being serialized and deserialized
AgentStep ==
    /\ util' # util /\ util'.op = "get_principal" =>
          /\ (util'.state = "err" /\ util'.err = Unavailable) <=> ~client.agent.some
          /\ client.agent.some =>
                util'.state = "ok" /\ util'.principal = AnonymousPrincipal
    /\ ~client.present /\ client'.present => client'.agent.some
    /\ client.agent.some /\ ~client'.agent.some =>
          client' = Deserialize(Serialize(client))

\* C14: get_principal fails with the error of the missing agent when, and
\* only when, the handle has no agent; every client a construction returns
\* has an agent, so that get_principal on it does not fail with that error;
\* and the only step that takes the agent from a handle is the round trip
\* through its serialized form.
C14_UnsetOnlyAfterDeserialize ==
    /\ [](ctor.returned.present =>
            /\ ctor.returned.agent.some
            /\ \A sender \in Senders :
                  get_principal(ctor.returned, sender).err # Unavailable)
    /\ [][AgentStep]_vars

\* get_principal was called on a deserialized handle and has failed with the
\* error of the missing agent
C14_Witness ==
    /\ client.present
    /\ ~client.agent.some
    /\ util.op = "get_principal"
    /\ util.state = "err"
    /\ util.err = Unavailable

\* ------------------------------------------------------------------------
\* C20  Operations on a handle without an agent
\* ------------------------------------------------------------------------

\* what a step does on a handle without an agent: an operation issued on it
\* returns at once with the error of the missing agent and nothing goes out;
\* the handle stays as it is, without an agent; get_canister_ids gives the
\* two identities the handle stores, which are those it had before it was
\* serialized
UnsetStep ==
    /\ \A id \in DOMAIN calls :
          calls[id].pc = "idle" /\ calls'[id].pc # "idle" /\ ~client.agent.some =>
              /\ calls'[id].pc = "done"
              /\ calls'[id].result = ErrResult(Unavailable)
              /\ calls'[id].request = NoRequest
              /\ net' = net
              /\ counter' = counter
    /\ client.present /\ ~client.agent.some => client' = client
    /\ util' # util /\ util'.op = "get_canister_ids" =>
          util'.ids = <<client.counter_canister_id, client.caller_canister_id>>
    /\ client.agent.some /\ ~client'.agent.some =>
          /\ client'.counter_canister_id = client.counter_canister_id
          /\ client'.caller_canister_id = client.caller_canister_id

\* C20: on a handle without an agent each of the three operations returns
\* the error of the missing agent and sends nothing, the first time and
\* every later time, since no step gives the handle an agent again; and
\* get_canister_ids on it returns the counter and relay identities it was
\* constructed with.
C20_UnsetHandleFailsEveryTime == [][UnsetStep]_vars

\* on a deserialized handle two operations, a get and an increment, have
\* both returned the error of the missing agent with nothing sent, and
\* get_canister_ids has returned the two identities
C20_Witness ==
    /\ client.present
    /\ ~client.agent.some
    /\ net.updates = 0
    /\ \E id, other \in DOMAIN calls :
          /\ calls[id].action = "Get"
          /\ calls[id].pc = "done"
          /\ calls[id].result = ErrResult(Unavailable)
          /\ calls[other].action = "Increment"
          /\ calls[other].pc = "done"
          /\ calls[other].result = ErrResult(Unavailable)
    /\ util.op = "get_canister_ids"
    /\ util.ids = <<PrincipalBytes(CounterText), PrincipalBytes(CallerText)>>

\* ------------------------------------------------------------------------
\* C21  The client buttons of the page
\* ------------------------------------------------------------------------

\* C21: on the page, a client operation has been issued only after the
\* construction of the client returned Ok and the signal was set to that
\* client, and it was issued on that client.  While the signal is empty the
\* buttons shown are the disabled placeholders and no operation has been
\* issued nor any update request sent; the signal is empty until the task
\* has taken the result of the construction.  The construction is begun
\* once at most; when it has failed the signal is empty and stays so, the
\* buttons are the placeholders and no operation is ever issued.
C21_NoClickBeforeClient ==
    /\ browser.constructions <= 1
    /\ net.agents_built <= browser.constructions
    /\ net.root_key_requests <= browser.constructions
    /\ browser.pc # "settled" => browser.signal = None
    /\ browser.signal.some =>
          /\ ctor.pc = "done"
          /\ ctor.result.state = "ok"
          /\ browser.signal.val = ctor.returned
          /\ browser.signal.val.agent.some
          /\ ClientButtons(browser.signal) = "enabled"
    /\ ~browser.signal.some =>
          /\ ClientButtons(browser.signal) = "disabled"
          /\ Dispatched = {}
          /\ net.updates = 0
    /\ \A id \in Dispatched :
          \/ calls[id].pc = "spawned" /\ calls[id].request = NoRequest
          \/ /\ id \in Requested
             /\ calls[id].request = RequestOf(calls[id].action, browser.signal.val)
    /\ ctor.result.state = "err" =>
          /\ browser.signal = None
          /\ browser.pc \in {"constructing", "settled"}
          /\ Dispatched = {}

\* the construction has failed at the root key fetch, the task has set the
\* signal to None and ended: the placeholders are shown and nothing was
\* issued
C21_Witness ==
    /\ browser.pc = "settled"
    /\ browser.constructions = 1
    /\ Kind(ctor.result.err) = "TrustBootstrapFailed"
    /\ browser.signal = None
    /\ ClientButtons(browser.signal) = "disabled"
    /\ Dispatched = {}
    /\ net.updates = 0

====
